---- MODULE Spec2Model ----
(***************************************************************************)
(* WebTalk: the request/config lifecycle of the Whisper transcription      *)
(* server.                                                                 *)
(*                                                                         *)
(* Two deployable servers are modelled, selected by `variant`:             *)
(*   "server"          src/server.py          (config file, POST /config,  *)
(*                                             model reload)               *)
(*   "whisper_server"  src/whisper_server.py  (fixed "turbo" transcriber,  *)
(*                                             content-type and size       *)
(*                                             checks)                     *)
(*                                                                         *)
(* The archived server (archive/build_files: config.py, whisper_server.py)  *)
(* is variant "archive" of SpecRoundTrip, SpecLoad and SpecArchive; the     *)
(* settings app (settings_app_flask.py) is variant "settings" of            *)
(* SpecSettings.  SpecLive is Spec with the event loop's fairness.          *)
(*                                                                         *)
(* Every handler is an `async def` run by the single asyncio event loop of *)
(* uvicorn.  whisper.load_model and model.transcribe are synchronous       *)
(* calls: while one runs the loop thread is held and no other handler      *)
(* makes a step.  The only suspension point inside a handler is            *)
(* `await audio.read()`.  Requests may ARRIVE (be accepted by the          *)
(* transport) at any moment, also while the loop is held.                  *)
(***************************************************************************)
EXTENDS Integers, Sequences, FiniteSets, TLC

\* Number of requests a behaviour issues (request ids are 1..MaxRequests).
MaxRequests == 2

VARIABLES
    variant,         \* which server program runs
    cuda_available,  \* torch.cuda.is_available(), fixed for the process
    config_file,     \* webtalk_config.json on disk
    current_config,  \* module-level current_config
    model,           \* module-level model / transcriber handle
    loads,           \* number of successful whisper.load_model calls so far
    phase,           \* "init", "main", "startup", "serving", "aborted";
                     \* "saving" in SpecRoundTrip
    tasks,           \* request id -> request task (handler position + locals)
    temp_files,      \* paths of the temporary audio files present on disk
    last_post,       \* history: the POST /config handled last (id, body)
    save_failed      \* history: some save_config call did not write the file

vars == <<variant, cuda_available, config_file, current_config, model,
          loads, phase, tasks, temp_files, last_post, save_failed>>

----------------------------------------------------------------------------
(* Configuration values *)

Keys == {"compute_engine", "model", "microphone", "server_port",
         "auth_key", "openai_api_key"}

\* ServerConfig(): the pydantic defaults.
ServerConfig ==
    [compute_engine |-> "gpu", model |-> "base", microphone |-> "default",
     server_port |-> 8000, auth_key |-> "", openai_api_key |-> ""]

\* Values a client posts, per key; a key left out of a body takes the class
\* default, so "gpu", "base" and "" are posted by omission.
ComputeEngines == {"cpu"}
ModelNames == {"tiny", "bogus"}
AuthKeys == {"k1"}

Configs ==
    [compute_engine : ComputeEngines, model : ModelNames,
     microphone : {"default"}, server_port : {8000},
     auth_key : AuthKeys, openai_api_key : {""}]

\* The names whisper.load_model accepts.
AvailableModels ==
    {"tiny", "base", "small", "medium", "large", "large-v2", "large-v3", "turbo"}

\* A JSON object over some of the keys.
Restrict(r, S) == [k \in S |-> r[k]]

\* Key sets of the posted bodies: every subset of the keys whose values vary
\* (a body that also gives the other keys their only value parses alike).
BodyKeySets == SUBSET {"compute_engine", "model", "auth_key"}

\* compute_engine is declared `str`: any string is a valid body value.
UnknownEngineBody == [compute_engine |-> "tpu"]

Bodies ==
    {Restrict(c, S) : c \in Configs, S \in BodyKeySets} \cup {UnknownEngineBody}

NoBody == Restrict(ServerConfig, {})

\* ServerConfig(**data): keys present take the given value, the others the
\* class default.
ParseOverCurrent(data) ==
    [k \in Keys |-> IF k \in DOMAIN data THEN data[k] ELSE current_config[k]]

ParseConfig(data) ==
    [k \in Keys |-> IF k \in DOMAIN data THEN data[k] ELSE ServerConfig[k]]

----------------------------------------------------------------------------
(* The config file *)

\* The Python type of a field: server_port is the only `int`.
FieldType(k) == IF k = "server_port" THEN "int" ELSE "str"

\* Decimal digits of a natural number, most significant first, and back.
RECURSIVE Digits(_)
Digits(n) == IF n < 10 THEN <<n>> ELSE Append(Digits(n \div 10), n % 10)

NumberOfLastDigit(ds) == ds[Len(ds)]

RECURSIVE Number(_)
Number(ds) ==
    IF Len(ds) = 1 THEN ds[1]
    ELSE 10 * Number(SubSeq(ds, 1, Len(ds) - 1)) + ds[Len(ds)]

\* json.dump of one value: an int is written as a JSON number (its decimal
\* digits), a str as a JSON string.
JsonEncode(type, v) ==
    IF type = "int"
    THEN [json |-> "number", text |-> Digits(v)]
    ELSE [json |-> "string", text |-> v]

\* json.dump(obj, f): the JSON object written for a dict.
json_dump(obj) == [k \in DOMAIN obj |-> JsonEncode(FieldType(k), obj[k])]

\* json.load of one value and of an object.
JsonDecode(jv) == IF jv.json = "number" THEN Number(jv.text) ELSE jv.text

json_load(data) == [k \in DOMAIN data |-> JsonDecode(data[k])]

\* pydantic's check of one field of ServerConfig(**config_data): a str field
\* takes a JSON string, the int field a JSON number.
ValidFor(k, jv) ==
    IF FieldType(k) = "int" THEN jv.json = "number" ELSE jv.json = "string"

\* `config_data = json.load(f); current_config = ServerConfig(**config_data)`;
\* a validation error is caught by load_config, which takes the defaults.
LoadJsonUnchecked(data) == ParseConfig(json_load(data))

LoadJson(data) ==
    IF \A k \in DOMAIN data \cap Keys : ValidFor(k, data[k])
    THEN ParseConfig(json_load(data))
    ELSE ServerConfig

MissingFile == [kind |-> "missing", data |-> NoBody]
PartialFile == [kind |-> "partial", data |-> NoBody]
JsonFile(obj) == [kind |-> "json", data |-> json_dump(obj)]

InitialFiles ==
    {MissingFile, PartialFile,
     JsonFile(Restrict(ServerConfig, {"compute_engine"})),
     JsonFile([ServerConfig EXCEPT !.compute_engine = "cpu",
                                   !.model = "tiny", !.auth_key = "k1"])}

\* Outcomes of open(config_file, 'w') + json.dump.
SaveOutcomes == {"ok", "open_failed", "write_failed"}

\* save_config(): the file after writing cfg with the given outcome.  The
\* exception is swallowed, so the caller sees nothing.
save_config_skipped(file, cfg, outcome) == file

save_config(file, cfg, outcome) ==
    CASE outcome = "ok" -> JsonFile(cfg)
      [] outcome = "open_failed" -> file
      [] outcome = "write_failed" -> PartialFile

----------------------------------------------------------------------------
(* The model *)

NoModel == [id |-> 0, name |-> "", device |-> ""]

\* "cuda" if compute_engine == "gpu" and torch.cuda.is_available() else "cpu"
ResolveDeviceNoFallback(compute_engine) ==
    IF compute_engine = "gpu" THEN "cuda" ELSE "cpu"

ResolveDevice(compute_engine) ==
    IF compute_engine = "gpu" /\ cuda_available THEN "cuda" ELSE "cpu"

\* whisper.load_model(name, device=device) can succeed only for a known name;
\* it can fail for any name (missing weights, out of memory).
LoadOutcomes(name) == IF name \in AvailableModels THEN {TRUE, FALSE} ELSE {FALSE}

LoadedModel(name, device) == [id |-> loads + 1, name |-> name, device |-> device]

----------------------------------------------------------------------------
(* Requests *)

Requests == 1..MaxRequests

\* Declared content types, as token sequences; <<>> is a missing type.
ContentTypes ==
    {<<>>, <<"audio", "/", "wav">>, <<"application", "/", "octet-stream">>,
     <<"text", "/", "plain">>}

\* Body sizes in bytes.
AudioSizes == {0, 99, 100}

\* "WebM header alone is ~100+ bytes"
MinAudioBytes == 100

valid_types ==
    {<<"audio", "/">>, <<"video", "/", "webm">>,
     <<"application", "/", "octet-stream">>}

\* str.startswith
StartsWith(s, prefix) ==
    /\ Len(prefix) <= Len(s)
    /\ \A i \in 1..Len(prefix) : s[i] = prefix[i]

\* not (not content_type or not any(content_type.startswith(t) ...))
ValidContentType(content_type) ==
    /\ content_type /= <<>>
    /\ \E t \in valid_types : StartsWith(content_type, t)

\* A request task: the handler's position and locals (stored: how the audio
\* reached the temporary file).  body, content_type
\* and size are the request's inputs, handed to the handler when it is
\* entered; they and the other locals are gone when the handler has
\* responded.  status, needs_reload, restart_required (the archive server's
\* answer), answer and server_status (the settings app: the status the
\* server answered the pushed config with, 0 for none, and what the app
\* made of it) and arrived_during stay as the record of
\* the request (arrived_during: for a POST, the POST /config whose model
\* load was running when this request arrived, 0 when none was).
FreeTask ==
    [kind |-> "none", pc |-> "free", body |-> NoBody, content_type |-> <<>>,
     size |-> 0, status |-> 0, needs_reload |-> FALSE, device |-> "",
     handle |-> 0, stored |-> "", path |-> 0, arrived_during |-> 0,
     restart_required |-> FALSE, answer |-> 0, server_status |-> ""]

\* The synchronous calls that hold the event-loop thread.
LoadOffLoop == FALSE

LoadHoldsLoop == \E t \in Requests : tasks[t].pc = "loading"

InferenceOffLoop == FALSE

InferenceHoldsLoop == \E t \in Requests : tasks[t].pc = "inferring"

\* A handler makes a step only when no synchronous call is running.
LoopIdleWhenAlone ==
    /\ ~LoadHoldsLoop /\ ~InferenceHoldsLoop
    /\ Cardinality({t \in Requests : tasks[t].pc \in {"arrived", "reading"}}) <= 1

LoopIdle == ~LoadHoldsLoop /\ ~InferenceHoldsLoop

Respond(tt, t, status) ==
    [tt EXCEPT ![t].pc = "done", ![t].status = status, ![t].body = NoBody,
               ![t].content_type = <<>>, ![t].size = 0, ![t].device = "",
               ![t].handle = 0, ![t].stored = "", ![t].path = 0]

\* `except Exception as e: ... raise HTTPException(status_code=500, ...)`:
\* whatever was raised inside the try block, HTTPException(400) included,
\* leaves the handler as a 500.
ErrorInsideTry(raised) == 500

----------------------------------------------------------------------------
(* Startup *)

Init ==
    /\ variant \in {"server", "whisper_server"}
    /\ cuda_available \in BOOLEAN
    /\ config_file \in IF variant = "server" THEN InitialFiles ELSE {MissingFile}
    /\ current_config = ServerConfig
    /\ model = NoModel
    /\ loads = 0
    /\ phase = "init"
    /\ tasks = [t \in Requests |-> FreeTask]
    /\ temp_files = {}
    /\ last_post = [id |-> 0, body |-> NoBody]
    /\ save_failed = FALSE

\* load_config(), called by the main block (to get the port) and again as
\* the first statement of startup_event.
load_config ==
    /\ variant = "server"
    /\ phase \in {"init", "main"}
    /\ \/ /\ config_file.kind = "json"
          /\ current_config' = LoadJson(config_file.data)
          /\ UNCHANGED <<config_file, save_failed>>
       \/ /\ config_file.kind = "missing"
          /\ \E outcome \in SaveOutcomes :
                /\ config_file' = save_config(config_file, current_config, outcome)
                /\ save_failed' = (save_failed \/ outcome /= "ok")
          /\ UNCHANGED current_config
       \/ /\ config_file.kind = "partial"
          /\ current_config' = ServerConfig
          /\ UNCHANGED <<config_file, save_failed>>
    /\ phase' = IF phase = "init" THEN "main" ELSE "startup"
    /\ UNCHANGED <<variant, cuda_available, model, loads, tasks, temp_files,
                   last_post>>

\* The rest of startup_event: load the configured model; a failure is
\* re-raised and the server does not start.
startup_event_swallows ==
    /\ variant = "server"
    /\ phase = "startup"
    /\ \E ok \in LoadOutcomes(current_config.model) :
          /\ model' = IF ok
                      THEN LoadedModel(current_config.model,
                                       ResolveDevice(current_config.compute_engine))
                      ELSE model
          /\ loads' = IF ok THEN loads + 1 ELSE loads
          /\ phase' = "serving"
    /\ UNCHANGED <<variant, cuda_available, config_file, current_config,
                   tasks, temp_files, last_post, save_failed>>

startup_event ==
    /\ variant = "server"
    /\ phase = "startup"
    /\ \E ok \in LoadOutcomes(current_config.model) :
          IF ok
          THEN /\ model' = LoadedModel(current_config.model,
                                       ResolveDevice(current_config.compute_engine))
               /\ loads' = loads + 1
               /\ phase' = "serving"
          ELSE /\ phase' = "aborted"
               /\ UNCHANGED <<model, loads>>
    /\ UNCHANGED <<variant, cuda_available, config_file, current_config,
                   tasks, temp_files, last_post, save_failed>>

\* whisper_server.py startup_event: transcriber = WhisperTranscriber().
whisper_startup_event ==
    /\ variant = "whisper_server"
    /\ phase = "init"
    /\ \E ok \in LoadOutcomes("turbo") :
          IF ok
          THEN /\ model' = LoadedModel("turbo",
                                       IF cuda_available THEN "cuda" ELSE "cpu")
               /\ loads' = loads + 1
               /\ phase' = "serving"
          ELSE /\ phase' = "aborted"
               /\ UNCHANGED <<model, loads>>
    /\ UNCHANGED <<variant, cuda_available, config_file, current_config,
                   tasks, temp_files, last_post, save_failed>>

----------------------------------------------------------------------------
(* Arrival of requests *)

LoadingRequest ==
    IF \E u \in Requests : tasks[u].pc = "loading"
    THEN CHOOSE u \in Requests : tasks[u].pc = "loading"
    ELSE 0

NextRequest == Cardinality({t \in Requests : tasks[t].pc /= "free"}) + 1

Arrive(t, kind) ==
    /\ phase = "serving"
    /\ t = NextRequest
    /\ t \in Requests
    /\ tasks' = [tasks EXCEPT ![t] =
                    [FreeTask EXCEPT !.kind = kind, !.pc = "arrived",
                                     !.arrived_during =
                                        IF kind \in {"transcribe", "post_config"}
                                        THEN LoadingRequest ELSE 0]]
    /\ UNCHANGED <<variant, cuda_available, config_file, current_config,
                   model, loads, phase, temp_files, last_post, save_failed>>

ArrivePostConfig ==
    /\ variant = "server"
    /\ \E t \in Requests : Arrive(t, "post_config")

ArriveTranscribe == \E t \in Requests : Arrive(t, "transcribe")

ArriveHealth == \E t \in Requests : Arrive(t, "health")

ArriveGetConfig ==
    /\ variant = "server"
    /\ \E t \in Requests : Arrive(t, "get_config")

----------------------------------------------------------------------------
(* POST /config  (server.py update_config) *)

\* needs_reload = (model is None or config.model != old_config.get("model")
\*                 or config.compute_engine != old_config.get("compute_engine"))
NeedsReloadAlways(m, old_config, config) == TRUE

NeedsReloadAnyChange(m, old_config, config) ==
    m = NoModel \/ config /= old_config

NeedsReloadModelOnly(m, old_config, config) ==
    m = NoModel \/ config.model /= old_config.model

NeedsReload(m, old_config, config) ==
    \/ m = NoModel
    \/ config.model /= old_config.model
    \/ config.compute_engine /= old_config.compute_engine

\* model = whisper.load_model(...): the assignment happens only when the call
\* returns; when it raises, the module-level model keeps its value.
ModelDroppedOnFailure(ok, old, new) == IF ok THEN new ELSE NoModel

ModelAfterLoad(ok, old, new) == IF ok THEN new ELSE old

\* From the handler's entry to the call of whisper.load_model, or to the
\* response when no reload is needed.  The posted body replaces
\* current_config as a whole (current_config = config), then save_config().
update_config(t) ==
    /\ LoopIdle
    /\ tasks[t].kind = "post_config"
    /\ tasks[t].pc = "arrived"
    /\ \E body \in Bodies, outcome \in SaveOutcomes :
          LET config == ParseConfig(body)
              old_config == current_config
              needs_reload == NeedsReload(model, old_config, config)
              entered == [tasks EXCEPT ![t].body = body]
          IN  /\ current_config' = config
              /\ config_file' = save_config(config_file, config, outcome)
              /\ save_failed' = (save_failed \/ outcome /= "ok")
              /\ last_post' = [id |-> t, body |-> body]
              /\ tasks' =
                   IF needs_reload
                   THEN [entered EXCEPT
                           ![t].pc = "loading",
                           ![t].needs_reload = TRUE,
                           ![t].device = ResolveDevice(config.compute_engine)]
                   ELSE Respond(entered, t, 200)
    /\ UNCHANGED <<variant, cuda_available, model, loads, phase, temp_files>>

\* whisper.load_model(config.model, device=device) returns or raises; the
\* handler answers 200, or 500 from its except clause.
reload_model(t) ==
    /\ tasks[t].kind = "post_config"
    /\ tasks[t].pc = "loading"
    /\ LET config == ParseConfig(tasks[t].body)
       IN  \E ok \in LoadOutcomes(config.model) :
              /\ model' = ModelAfterLoad(ok, model,
                                         LoadedModel(config.model, tasks[t].device))
              /\ loads' = IF ok THEN loads + 1 ELSE loads
              /\ tasks' = Respond(tasks, t, IF ok THEN 200 ELSE ErrorInsideTry(0))
    /\ UNCHANGED <<variant, cuda_available, config_file, current_config,
                   phase, temp_files, last_post, save_failed>>

----------------------------------------------------------------------------
(* POST /transcribe *)

\* `if not model` / `if not transcriber`
ModelNeverChecked == FALSE

ModelNotLoaded == model = NoModel

\* The size checks made after the body is read: the status raised, 0 when
\* the body passes.  server.py checks for an empty body only.
RaisedForSize(size) ==
    IF size = 0 THEN 400
    ELSE IF variant = "whisper_server" /\ size < MinAudioBytes THEN 400
    ELSE 0

\* The content types the handler looks at: server.py never reads
\* audio.content_type.
DeclaredTypes == IF variant = "whisper_server" THEN ContentTypes ELSE {<<>>}

\* From the handler's entry to `await audio.read()`; handle is the model
\* object the readiness check looked at.
transcribe_audio(t) ==
    /\ LoopIdle
    /\ tasks[t].kind = "transcribe"
    /\ tasks[t].pc = "arrived"
    /\ \E content_type \in DeclaredTypes, size \in AudioSizes :
          LET entered == [tasks EXCEPT ![t].content_type = content_type,
                                       ![t].size = size]
          IN  tasks' =
                IF ModelNotLoaded
                THEN Respond(tasks, t, 503)
                ELSE IF variant = "whisper_server"
                        /\ ~ValidContentType(content_type)
                THEN Respond(tasks, t, 400)
                ELSE [entered EXCEPT ![t].pc = "reading",
                                     ![t].handle = model.id]
    /\ UNCHANGED <<variant, cuda_available, config_file, current_config,
                   model, loads, phase, temp_files, last_post, save_failed>>

\* The branches that write the upload as it is: server.py always;
\* whisper_server.py for audio/wav and for video/webm or audio/webm.
WritesDirectly(content_type) ==
    \/ variant = "server"
    \/ content_type = <<"audio", "/", "wav">>
    \/ StartsWith(content_type, <<"video", "/", "webm">>)
    \/ StartsWith(content_type, <<"audio", "/", "webm">>)

\* The `with tempfile.NamedTemporaryFile(..., delete=False)` block: how the
\* audio is stored ("none" when the block raised) and whether temp_file_path
\* was assigned by then.  decode_ok: sf.read; convert_ok: sf.write;
\* write_ok: temp_file.write.  temp_file_path is assigned after
\* temp_file.write but before sf.write.
SaveAudio(content_type, decode_ok, convert_ok, write_ok) ==
    IF WritesDirectly(content_type)
    THEN IF write_ok
         THEN [stored |-> "direct", path_known |-> TRUE]
         ELSE [stored |-> "none", path_known |-> FALSE]
    ELSE IF decode_ok
    THEN IF convert_ok
         THEN [stored |-> "converted", path_known |-> TRUE]
         ELSE IF write_ok
         THEN [stored |-> "raw", path_known |-> TRUE]
         ELSE [stored |-> "none", path_known |-> TRUE]
    ELSE IF write_ok
    THEN [stored |-> "raw", path_known |-> TRUE]
    ELSE [stored |-> "none", path_known |-> FALSE]

\* Temporary file names; a request creates at most one file.
Paths == 1..MaxRequests

\* tempfile.NamedTemporaryFile(delete=False): mkstemp opens the file with
\* O_EXCL, so the name it returns is the name of no existing file.
FixedTemporaryFile(files) == CHOOSE p \in Paths : TRUE

NamedTemporaryFile(files) == CHOOSE p \in Paths : p \notin files

\* `if 'temp_file_path' in locals(): os.unlink(temp_file_path)` in the except
\* clause, and os.unlink(temp_file_path) after model.transcribe.
UnlinkOnSuccessOnly(files, p, path_known, ok) ==
    IF ok THEN files \ {p} ELSE files

Unlink(files, p, path_known, ok) ==
    IF path_known THEN files \ {p} ELSE files

\* `result = model.transcribe(temp_file_path)`: the global is read when the
\* call is made, not when the handler was entered.
HandleAtCheck(t) == tasks[t].handle

HandleAtInference(t) == model.id

\* After the body is read: the size checks, the temporary file, and the call
\* of model.transcribe on the module-level model as it is now.
transcribe_read(t) ==
    /\ LoopIdle
    /\ tasks[t].kind = "transcribe"
    /\ tasks[t].pc = "reading"
    /\ IF RaisedForSize(tasks[t].size) /= 0
       THEN /\ tasks' = Respond(tasks, t,
                                ErrorInsideTry(RaisedForSize(tasks[t].size)))
            /\ UNCHANGED temp_files
       ELSE \E saved \in {SaveAudio(tasks[t].content_type,
                                     decode_ok, convert_ok, write_ok) :
                              decode_ok, convert_ok, write_ok \in BOOLEAN} :
               LET name == NamedTemporaryFile(temp_files)
                   created == temp_files \cup {name}
               IN  IF saved.stored = "none"
                   THEN /\ temp_files' = Unlink(created, name, saved.path_known, FALSE)
                        /\ tasks' = Respond(tasks, t, ErrorInsideTry(0))
                   ELSE /\ temp_files' = created
                        /\ tasks' = [tasks EXCEPT ![t].pc = "inferring",
                                                  ![t].path = name,
                                                  ![t].handle = HandleAtInference(t),
                                                  ![t].stored = saved.stored]
    /\ UNCHANGED <<variant, cuda_available, config_file, current_config,
                   model, loads, phase, last_post, save_failed>>

\* model.transcribe returns or raises; os.unlink(temp_file_path) on both
\* paths.
transcribe_done_drops_model(t) ==
    /\ tasks[t].kind = "transcribe"
    /\ tasks[t].pc = "inferring"
    /\ \E ok \in BOOLEAN :
          /\ temp_files' = Unlink(temp_files, tasks[t].path, TRUE, ok)
          /\ tasks' = Respond(tasks, t, IF ok THEN 200 ELSE ErrorInsideTry(0))
          /\ model' = IF ok THEN model ELSE NoModel
    /\ UNCHANGED <<variant, cuda_available, config_file, current_config,
                   loads, phase, last_post, save_failed>>

transcribe_done(t) ==
    /\ tasks[t].kind = "transcribe"
    /\ tasks[t].pc = "inferring"
    /\ \E ok \in BOOLEAN :
          /\ temp_files' = Unlink(temp_files, tasks[t].path, TRUE, ok)
          /\ tasks' = Respond(tasks, t, IF ok THEN 200 ELSE ErrorInsideTry(0))
    /\ UNCHANGED <<variant, cuda_available, config_file, current_config,
                   model, loads, phase, last_post, save_failed>>

----------------------------------------------------------------------------
(* GET /health, GET /config *)

\* The body of the health response.
HealthReportOfConfig ==
    [device |-> IF cuda_available THEN "cuda" ELSE "cpu",
     model |-> IF variant = "archive" THEN current_config.model_selector
               ELSE current_config.model]

HealthReport ==
    IF variant = "server"
    THEN [device |-> IF cuda_available THEN "cuda" ELSE "cpu",
          model |-> current_config.model]
    ELSE [device |-> model.device, model |-> model.name]

\* `if not model: raise HTTPException(status_code=503, ...)`, else the report.
HealthResponse ==
    IF ModelNotLoaded
    THEN [status |-> 503, body |-> [device |-> "", model |-> ""]]
    ELSE [status |-> 200, body |-> HealthReport]

health_check(t) ==
    /\ LoopIdle
    /\ tasks[t].kind = "health"
    /\ tasks[t].pc = "arrived"
    /\ tasks' = Respond(tasks, t, HealthResponse.status)
    /\ UNCHANGED <<variant, cuda_available, config_file, current_config,
                   model, loads, phase, temp_files, last_post, save_failed>>

\* return current_config.model_dump()
get_config(t) ==
    /\ LoopIdle
    /\ tasks[t].kind = "get_config"
    /\ tasks[t].pc = "arrived"
    /\ tasks' = Respond(tasks, t, 200)
    /\ UNCHANGED <<variant, cuda_available, config_file, current_config,
                   model, loads, phase, temp_files, last_post, save_failed>>

----------------------------------------------------------------------------

Next ==
    \/ load_config
    \/ startup_event
    \/ whisper_startup_event
    \/ ArrivePostConfig
    \/ ArriveTranscribe
    \/ ArriveHealth
    \/ ArriveGetConfig
    \/ \E t \in Requests : update_config(t)
    \/ \E t \in Requests : reload_model(t)
    \/ \E t \in Requests : transcribe_audio(t)
    \/ \E t \in Requests : transcribe_read(t)
    \/ \E t \in Requests : transcribe_done(t)
    \/ \E t \in Requests : health_check(t)
    \/ \E t \in Requests : get_config(t)

Spec == Init /\ [][Next]_vars

\* The event loop runs every handler that is ready: a handler whose step is
\* possible is not passed over forever, a body that is awaited arrives, and
\* a load or a transcription that was called returns or raises.
Fairness ==
    \A t \in Requests :
        /\ WF_vars(update_config(t))
        /\ WF_vars(reload_model(t))
        /\ WF_vars(transcribe_audio(t))
        /\ WF_vars(transcribe_read(t))
        /\ WF_vars(transcribe_done(t))
        /\ WF_vars(health_check(t))
        /\ WF_vars(get_config(t))

SpecLive == Init /\ [][Next]_vars /\ Fairness

\* The app object served without its startup handler (an ASGI server run
\* with lifespan off, or a test client that does not enter the lifespan):
\* the module globals are as at import time, so no model is loaded until a
\* POST /config loads one (`model is None or ...` in needs_reload).
InitNoLifespan ==
    /\ variant \in {"server", "whisper_server"}
    /\ cuda_available \in BOOLEAN
    /\ config_file \in IF variant = "server" THEN InitialFiles ELSE {MissingFile}
    /\ current_config = ServerConfig
    /\ model = NoModel
    /\ loads = 0
    /\ phase = "serving"
    /\ tasks = [t \in Requests |-> FreeTask]
    /\ temp_files = {}
    /\ last_post = [id |-> 0, body |-> NoBody]
    /\ save_failed = FALSE

Serve ==
    \/ ArrivePostConfig
    \/ ArriveTranscribe
    \/ ArriveHealth
    \/ ArriveGetConfig
    \/ \E t \in Requests : update_config(t)
    \/ \E t \in Requests : reload_model(t)
    \/ \E t \in Requests : transcribe_audio(t)
    \/ \E t \in Requests : transcribe_read(t)
    \/ \E t \in Requests : transcribe_done(t)
    \/ \E t \in Requests : health_check(t)
    \/ \E t \in Requests : get_config(t)

SpecNoLifespan == InitNoLifespan /\ [][Serve]_vars

----------------------------------------------------------------------------
(* Writing the config file and loading it in the next process *)

\* archive/build_files/config.py: the keys and defaults of its ServerConfig.
ArchiveKeys ==
    {"compute_engine", "model_selector", "microphone_selector", "server_port",
     "auth_key", "openai_api_key", "host"}

default_config ==
    [compute_engine |-> "cpu", model_selector |-> "tiny",
     microphone_selector |-> "default", server_port |-> 9090,
     auth_key |-> "", openai_api_key |-> "", host |-> "127.0.0.1"]

\* config.py load_config: the file's object merged over the defaults (keys
\* of the file that are not known are kept); the defaults when the file is
\* missing or does not parse.
ArchiveLoad(file) ==
    IF file.kind = "json"
    THEN [k \in ArchiveKeys \cup DOMAIN file.data |->
             IF k \in DOMAIN file.data
             THEN json_load(file.data)[k] ELSE default_config[k]]
    ELSE default_config

\* The configs written: every combination of these values.
RoundTripConfigs ==
    [compute_engine : {"cpu", "gpu", "tpu"}, model : {"base", "tiny"},
     microphone : {"default"}, server_port : {8000, 9090},
     auth_key : {"", "k1"}, openai_api_key : {""}]

ArchiveRoundTripConfigs ==
    [compute_engine : {"cpu", "gpu"}, model_selector : {"tiny", "turbo"},
     microphone_selector : {"default"}, server_port : {9090, 8000},
     auth_key : {"", "k1"}, openai_api_key : {""}, host : {"127.0.0.1"}]

\* A process that holds a config c in memory (the body posted last, given in
\* full) and is about to save it; the file holds anything from before.
InitRoundTrip ==
    /\ variant \in {"server", "archive"}
    /\ cuda_available = FALSE
    /\ config_file \in InitialFiles
    /\ current_config \in IF variant = "server"
                          THEN RoundTripConfigs ELSE ArchiveRoundTripConfigs
    /\ model = NoModel
    /\ loads = 0
    /\ phase = "saving"
    /\ tasks = [t \in Requests |-> FreeTask]
    /\ temp_files = {}
    /\ last_post = [id |-> 0, body |-> current_config]
    /\ save_failed = FALSE

\* save_config() (config.py save_config), after which the process ends and a
\* new one starts with the module-level defaults.
write_config ==
    /\ phase = "saving"
    /\ \E outcome \in SaveOutcomes :
          /\ config_file' = save_config(config_file, current_config, outcome)
          /\ save_failed' = (outcome /= "ok")
    /\ current_config' = IF variant = "server" THEN ServerConfig ELSE default_config
    /\ phase' = "init"
    /\ UNCHANGED <<variant, cuda_available, model, loads, tasks, temp_files,
                   last_post>>

\* config = ServerConfig() in the archive server: self.config = load_config()
archive_load_config ==
    /\ variant = "archive"
    /\ phase = "init"
    /\ current_config' = ArchiveLoad(config_file)
    /\ phase' = "main"
    /\ UNCHANGED <<variant, cuda_available, config_file, model, loads, tasks,
                   temp_files, last_post, save_failed>>

RoundTrip ==
    \/ write_config
    \/ load_config
    \/ archive_load_config

SpecRoundTrip == InitRoundTrip /\ [][RoundTrip]_vars

----------------------------------------------------------------------------
(* Loading the config file at process start, and the archive store's update *)

\* JSON null, which json.load gives as None.
JsonNull == [json |-> "null", text |-> "None"]

\* The name of the model key: "model" in server.py, "model_selector" in
\* config.py.
ModelKey == IF variant = "archive" THEN "model_selector" ELSE "model"

\* JSON objects a user may have left in the file: any subset of these
\* members; "extra" is a key neither program knows.
FileMembers ==
    [k \in {ModelKey, "server_port", "auth_key", "extra"} |->
        CASE k = "server_port" -> 9191
          [] k = "auth_key" -> "k1"
          [] k = "extra" -> "x"
          [] OTHER -> "tiny"]

\* A JSON object whose model member is null: it parses, and pydantic rejects
\* it for a `str` field.
NullModelFile ==
    [kind |-> "json",
     data |-> [k \in {ModelKey, "auth_key"} |->
                  IF k = "auth_key" THEN JsonEncode("str", "k1") ELSE JsonNull]]

LoadFiles ==
    {MissingFile, PartialFile, NullModelFile}
        \cup {JsonFile(Restrict(FileMembers, S)) : S \in SUBSET DOMAIN FileMembers}

\* A process at import time: the module-level defaults in memory, the file
\* as the user or an earlier run left it.
InitLoad ==
    /\ variant \in {"server", "archive"}
    /\ cuda_available = FALSE
    /\ config_file \in LoadFiles
    /\ current_config = IF variant = "server" THEN ServerConfig ELSE default_config
    /\ model = NoModel
    /\ loads = 0
    /\ phase = "init"
    /\ tasks = [t \in Requests |-> FreeTask]
    /\ temp_files = {}
    /\ last_post = [id |-> 0, body |-> NoBody]
    /\ save_failed = FALSE

\* The bodies the archive server passes to update_config: ConfigUpdate.dict(),
\* all six fields.
ArchiveUpdates ==
    [compute_engine : {"cpu"}, model_selector : {"tiny", "turbo"},
     microphone_selector : {"default"}, server_port : {9090},
     auth_key : {"", "k2"}, openai_api_key : {""}]

\* dict.update: the keys of updates take their new values, the others stay.
DictUpdate(d, updates) ==
    [k \in DOMAIN d \cup DOMAIN updates |->
        IF k \in DOMAIN updates THEN updates[k] ELSE d[k]]

\* config.py update_config(updates): self.config.update(updates), then
\* save_config(), whose result is returned.
archive_update_config ==
    /\ variant = "archive"
    /\ phase = "main"
    /\ \E updates \in ArchiveUpdates, outcome \in SaveOutcomes :
          LET updated == DictUpdate(current_config, updates)
          IN  /\ current_config' = updated
              /\ config_file' = save_config(config_file, updated, outcome)
              /\ save_failed' = (save_failed \/ outcome /= "ok")
              /\ last_post' = [id |-> 1, body |-> updates]
    /\ UNCHANGED <<variant, cuda_available, model, loads, phase, tasks,
                   temp_files>>

Load ==
    \/ load_config
    \/ archive_load_config
    \/ archive_update_config

SpecLoad == InitLoad /\ [][Load]_vars

----------------------------------------------------------------------------
(* The archived server (archive/build_files/whisper_server.py) *)

\* The files the archived server may find at start.
ArchiveInitialFiles ==
    {MissingFile, PartialFile, NullModelFile,
     JsonFile(Restrict(FileMembers, {"server_port", "extra"})),
     JsonFile(Restrict([default_config EXCEPT !.compute_engine = "gpu"],
                       {"compute_engine"}))}

InitArchive ==
    /\ variant = "archive"
    /\ cuda_available \in BOOLEAN
    /\ config_file \in ArchiveInitialFiles
    /\ current_config = default_config
    /\ model = NoModel
    /\ loads = 0
    /\ phase = "init"
    /\ tasks = [t \in Requests |-> FreeTask]
    /\ temp_files = {}
    /\ last_post = [id |-> 0, body |-> NoBody]
    /\ save_failed = FALSE

\* device = "cuda" if config.get("compute_engine") == "gpu" else "cpu":
\* torch.cuda.is_available() is not asked.
ArchiveDevice(compute_engine) == IF compute_engine = "gpu" THEN "cuda" ELSE "cpu"

\* whisper.load_model(name, device=device): loading on "cuda" raises when
\* there is no CUDA device.
ArchiveLoadOutcomes(name, device) ==
    IF device = "cuda" /\ ~cuda_available THEN {FALSE} ELSE LoadOutcomes(name)

\* startup_event: transcriber = WhisperTranscriber(model_name, device); a
\* failure is re-raised and the server does not start.
archive_startup_event ==
    /\ variant = "archive"
    /\ phase = "main"
    /\ LET device == ArchiveDevice(current_config.compute_engine)
           model_name == current_config.model_selector
       IN  \E ok \in ArchiveLoadOutcomes(model_name, device) :
              IF ok
              THEN /\ model' = LoadedModel(model_name, device)
                   /\ loads' = loads + 1
                   /\ phase' = "serving"
              ELSE /\ phase' = "aborted"
                   /\ UNCHANGED <<model, loads>>
    /\ UNCHANGED <<variant, cuda_available, config_file, current_config,
                   tasks, temp_files, last_post, save_failed>>

ArchiveArrive ==
    /\ variant = "archive"
    /\ \E t \in Requests, kind \in {"post_config", "health", "get_config"} :
          Arrive(t, kind)

\* restart_required: a critical setting of the body differs from the config
\* held before the update.
RestartOnAnyChange(new_config, held) ==
    \E k \in DOMAIN new_config : new_config[k] /= held[k]

RestartRequired(new_config, held) ==
    \/ new_config.compute_engine /= held.compute_engine
    \/ new_config.model_selector /= held.model_selector
    \/ new_config.server_port /= held.server_port

\* POST /config of the archived server: restart_required from the config
\* held, then config.update_config(new_config); a false result is answered
\* 500, else 200 with restart_required.  Nothing is loaded.
archive_post_config(t) ==
    /\ variant = "archive"
    /\ LoopIdle
    /\ tasks[t].kind = "post_config"
    /\ tasks[t].pc = "arrived"
    /\ \E new_config \in ArchiveUpdates, outcome \in SaveOutcomes :
          LET restart_required == RestartRequired(new_config, current_config)
              updated == DictUpdate(current_config, new_config)
              success == outcome = "ok"
          IN  /\ current_config' = updated
              /\ config_file' = save_config(config_file, updated, outcome)
              /\ save_failed' = (save_failed \/ ~success)
              /\ last_post' = [id |-> t, body |-> new_config]
              /\ tasks' =
                   IF success
                   THEN [Respond(tasks, t, 200) EXCEPT
                            ![t].restart_required = restart_required]
                   ELSE Respond(tasks, t, ErrorInsideTry(500))
    /\ UNCHANGED <<variant, cuda_available, model, loads, phase, temp_files>>

\* GET /health of the archived server: transcriber.device and
\* transcriber.model_name.
archive_health_check(t) ==
    /\ variant = "archive"
    /\ health_check(t)

\* GET /config of the archived server: config.get_all().
archive_get_config(t) ==
    /\ variant = "archive"
    /\ get_config(t)

ArchiveNext ==
    \/ archive_load_config
    \/ archive_startup_event
    \/ ArchiveArrive
    \/ \E t \in Requests : archive_post_config(t)
    \/ \E t \in Requests : archive_health_check(t)
    \/ \E t \in Requests : archive_get_config(t)

SpecArchive == InitArchive /\ [][ArchiveNext]_vars

----------------------------------------------------------------------------
(* The settings app (settings_app_flask.py), a client of POST /config *)

\* The settings form as posted by the page: server_port comes as a JSON
\* number, as a string of digits, or as a string that is no number; a key
\* may be missing.
FormPorts ==
    {[json |-> "number", text |-> Digits(9090)],
     [json |-> "digits", text |-> Digits(9090)],
     [json |-> "string", text |-> "abc"]}

SettingsForms ==
    {[model |-> "tiny"]}
        \cup [model : {"tiny", "bogus"}, server_port : FormPorts]

\* int(data.get("server_port", 8000)): whether it raises, and its value.
IntRaises(form) ==
    "server_port" \in DOMAIN form /\ form.server_port.json = "string"

FormPort(form) ==
    IF "server_port" \in DOMAIN form THEN Number(form.server_port.text)
    ELSE ServerConfig.server_port

\* self.config.update({...}): each of the six keys takes the form's value,
\* or the literal default of data.get when the form lacks the key.
FormConfig(held, form) ==
    [k \in DOMAIN held \cup Keys |->
        IF k \notin Keys THEN held[k]
        ELSE IF k = "server_port" THEN FormPort(form)
        ELSE IF k \in DOMAIN form THEN form[k]
        ELSE ServerConfig[k]]

\* What the server answers the pushed config with: a status, or 0 when the
\* request could not be completed (no server, timeout).
ServerAnswers == {0, 200, 422, 500}

\* update_server_config: the server_status made of the answer.
ServerStatusRunningOnAnswer(answer) ==
    IF answer = 0 THEN "not_running" ELSE "running"

ServerStatus(answer) ==
    IF answer = 200 THEN "running"
    ELSE IF answer = 0 THEN "not_running"
    ELSE "restart_needed"

\* The settings app running, its config loaded from its file.
InitSettings ==
    /\ variant = "settings"
    /\ cuda_available = FALSE
    /\ current_config \in {ServerConfig, [ServerConfig EXCEPT !.auth_key = "k1"]}
    /\ config_file \in {MissingFile, JsonFile(current_config)}
    /\ model = NoModel
    /\ loads = 0
    /\ phase = "serving"
    /\ tasks = [t \in Requests |-> FreeTask]
    /\ temp_files = {}
    /\ last_post = [id |-> 0, body |-> NoBody]
    /\ save_failed = FALSE

ArriveSaveSettings ==
    /\ variant = "settings"
    /\ \E t \in Requests : Arrive(t, "save_settings")

\* save_settings up to the call of requests.post: the form is read into
\* self.config and save_config() writes the file, swallowing a failed
\* write; an exception before that is answered 500 with success false.
save_settings(t) ==
    /\ variant = "settings"
    /\ tasks[t].kind = "save_settings"
    /\ tasks[t].pc = "arrived"
    /\ \E form \in SettingsForms, outcome \in SaveOutcomes :
          IF IntRaises(form)
          THEN /\ tasks' = Respond(tasks, t, 500)
               /\ UNCHANGED <<current_config, config_file, save_failed>>
          ELSE LET updated == FormConfig(current_config, form)
               IN  /\ current_config' = updated
                   /\ config_file' = save_config(config_file, updated, outcome)
                   /\ save_failed' = (save_failed \/ outcome /= "ok")
                   /\ tasks' = [tasks EXCEPT ![t].pc = "pushing"]
    /\ UNCHANGED <<variant, cuda_available, model, loads, phase, temp_files,
                   last_post>>

\* update_server_config returns and save_settings answers success with the
\* server_status.
update_server_config(t) ==
    /\ variant = "settings"
    /\ tasks[t].kind = "save_settings"
    /\ tasks[t].pc = "pushing"
    /\ \E answer \in ServerAnswers :
          tasks' = [Respond(tasks, t, 200) EXCEPT
                       ![t].answer = answer,
                       ![t].server_status = ServerStatus(answer)]
    /\ UNCHANGED <<variant, cuda_available, config_file, current_config,
                   model, loads, phase, temp_files, last_post, save_failed>>

SettingsNext ==
    \/ ArriveSaveSettings
    \/ \E t \in Requests : save_settings(t)
    \/ \E t \in Requests : update_server_config(t)

SpecSettings == InitSettings /\ [][SettingsNext]_vars

----------------------------------------------------------------------------
(* Properties *)

PostEntered(t) ==
    /\ tasks[t].kind = "post_config"
    /\ tasks[t].pc = "arrived"
    /\ tasks'[t].pc /= "arrived"

LoadReturned(t) ==
    /\ tasks[t].kind = "post_config"
    /\ tasks[t].pc = "loading"
    /\ tasks'[t].pc = "done"

\* C1: after a POST /config with partial body p on config c, the config is
\* c overridden by p: keys of p take p's value, the other keys keep c's.
C1_PostMergesPartialBody ==
    [][\A t \in Requests :
          PostEntered(t) =>
             current_config' =
                [k \in Keys |-> IF k \in DOMAIN last_post'.body
                                THEN last_post'.body[k]
                                ELSE current_config[k]]]_vars

\* C2: with a model loaded, a POST /config that leaves model and
\* compute_engine as they were performs no load and keeps the same handle.
C2_NoReloadForOtherFields ==
    [][\A t \in Requests :
          ( /\ PostEntered(t)
            /\ model /= NoModel
            /\ current_config'.model = current_config.model
            /\ current_config'.compute_engine = current_config.compute_engine )
          => /\ tasks'[t].pc = "done"
             /\ model' = model
             /\ loads' = loads]_vars

C2_Witness ==
    /\ tasks[1].kind = "post_config"
    /\ tasks[1].pc = "done"
    /\ tasks[1].status = 200
    /\ ~tasks[1].needs_reload
    /\ last_post = [id |-> 1, body |-> Restrict([auth_key |-> "k1"], {"auth_key"})]
    /\ current_config = [ServerConfig EXCEPT !.auth_key = "k1"]
    /\ model.id = 1

\* C3: a POST /config that changes model or compute_engine calls the model
\* load with the new name and the device resolved from the new
\* compute_engine before it responds, and when it responds 200 the loaded
\* model is that model on that device.
C3_ReloadOnModelOrEngineChange ==
    [][\A t \in Requests :
          LET resolved == IF current_config'.compute_engine = "gpu" /\ cuda_available
                          THEN "cuda" ELSE "cpu"
          IN  /\ ( /\ PostEntered(t)
                   /\ \/ current_config'.model /= current_config.model
                      \/ current_config'.compute_engine /= current_config.compute_engine )
                 => /\ tasks'[t].pc = "loading"
                    /\ tasks'[t].status = 0
                    /\ "model" \in DOMAIN tasks'[t].body
                          => tasks'[t].body.model = current_config'.model
                    /\ "model" \notin DOMAIN tasks'[t].body
                          => current_config'.model = ServerConfig.model
                    /\ tasks'[t].device = resolved
              /\ (LoadReturned(t) /\ tasks'[t].status = 200)
                 => /\ model'.name = current_config'.model
                    /\ model'.device = resolved
                    /\ model'.id /= model.id]_vars

C3_Witness ==
    \E t \in Requests :
        /\ tasks[t].kind = "post_config"
        /\ tasks[t].pc = "done"
        /\ tasks[t].status = 200
        /\ tasks[t].needs_reload
        /\ last_post.id = t
        /\ model.id > 1
        /\ model.name = current_config.model

\* C4: when the load of a POST /config fails, the handle loaded before stays
\* the active handle, and a transcription runs on the active handle.
C4_FailedReloadKeepsModel ==
    [][/\ \A t \in Requests :
             (LoadReturned(t) /\ loads' = loads)
             => /\ model' = model
                /\ model' /= NoModel
       /\ \A u \in Requests :
             tasks'[u].pc = "inferring"
             => /\ model' /= NoModel
                /\ tasks'[u].handle = model'.id]_vars

C4_Witness ==
    \E t, u \in Requests :
        /\ t < u
        /\ tasks[t].kind = "post_config"
        /\ tasks[t].pc = "done"
        /\ tasks[t].needs_reload
        /\ tasks[t].status = 500
        /\ tasks[u].kind = "transcribe"
        /\ tasks[u].pc = "inferring"
        /\ tasks[u].handle = model.id
        /\ model.id = 1

\* C5: when the reload of a POST /config fails, the response still reports
\* success (200) for the persisted config.
C5_FailedReloadAnswersSuccess ==
    [][\A t \in Requests :
          (LoadReturned(t) /\ loads' = loads) => tasks'[t].status = 200]_vars

\* C6: at most one operation uses the model at a time: no load runs during
\* an inference and no two inferences run together.
C6_OneUserOfModel ==
    Cardinality({t \in Requests : tasks[t].pc \in {"loading", "inferring"}}) <= 1

C6_Witness ==
    \E t, u \in Requests :
        /\ tasks[t].pc = "inferring"
        /\ tasks[u].kind = "post_config"
        /\ tasks[u].pc = "arrived"

\* C7: a POST /transcribe that arrives during a model reload is not rejected
\* because of it (no 503) and is handled only once that reload has returned.
C7_TranscribeWaitsForReload ==
    \A t \in Requests :
        (tasks[t].kind = "transcribe" /\ tasks[t].arrived_during /= 0)
        => /\ tasks[t].status /= 503
           /\ tasks[t].pc /= "arrived"
                 => tasks[tasks[t].arrived_during].pc = "done"

C7_Witness ==
    \E t \in Requests :
        /\ tasks[t].kind = "transcribe"
        /\ tasks[t].arrived_during /= 0
        /\ tasks[t].pc = "done"
        /\ tasks[t].status = 200

TwoPostsCompleted ==
    /\ \E t, u \in Requests :
          /\ t /= u
          /\ tasks[t].kind = "post_config" /\ tasks[t].pc = "done"
          /\ tasks[u].kind = "post_config" /\ tasks[u].pc = "done"
    /\ \A t \in Requests :
          tasks[t].kind = "post_config" => tasks[t].pc \in {"arrived", "done"}

LastPostedConfig ==
    [k \in Keys |-> IF k \in DOMAIN last_post.body
                    THEN last_post.body[k] ELSE ServerConfig[k]]

C9_EmptyBodyAnswers400 ==
    [][\A t \in Requests :
          ( /\ tasks[t].kind = "transcribe"
            /\ tasks[t].pc = "reading"
            /\ tasks[t].size = 0
            /\ tasks'[t].pc /= "reading" )
          => /\ tasks'[t].pc = "done"
             /\ tasks'[t].status = 400
             /\ model' = model
             /\ current_config' = current_config
             /\ temp_files' = temp_files]_vars

\* C10: a POST /transcribe with a body shorter than 100 bytes responds 400.
C10_SmallBodyAnswers400 ==
    [][\A t \in Requests :
          ( /\ tasks[t].kind = "transcribe"
            /\ tasks[t].pc \in {"reading", "inferring"}
            /\ tasks[t].size < MinAudioBytes
            /\ tasks'[t].pc = "done" )
          => tasks'[t].status = 400]_vars

\* C11: a POST /transcribe on a loaded model whose declared content type is
\* missing or starts with none of audio/, video/webm,
\* application/octet-stream is answered 400 straight from the handler's
\* entry: the body is not read, no temporary file is made and the model is
\* not called.
C11_BadContentTypeRejected ==
    [][\A t \in Requests :
          ( /\ tasks[t].kind = "transcribe"
            /\ tasks[t].pc = "arrived"
            /\ tasks'[t].pc /= "arrived"
            /\ model /= NoModel
            /\ \/ tasks'[t].content_type = <<>>
               \/ \A p \in valid_types : ~StartsWith(tasks'[t].content_type, p) )
          => /\ tasks'[t].pc = "done"
             /\ tasks'[t].status = 400
             /\ temp_files' = temp_files]_vars

StartupLoaded == phase = "startup" /\ phase' = "serving"

HealthAnswered(t) ==
    /\ tasks[t].kind = "health"
    /\ tasks[t].pc = "arrived"
    /\ tasks'[t].pc = "done"

\* C12: with compute_engine gpu and no GPU present, the model loaded at
\* startup and the model loaded by a POST /config are on cpu, and a health
\* response reports the device cpu.
C12_GpuFallsBackToCpu ==
    [][( /\ variant = "server"
         /\ ~cuda_available
         /\ current_config'.compute_engine = "gpu" )
       => /\ StartupLoaded => model'.device = "cpu"
          /\ \A t \in Requests :
                (LoadReturned(t) /\ loads' /= loads) => model'.device = "cpu"
          /\ \A t \in Requests :
                HealthAnswered(t)
                => /\ tasks'[t].status = 200
                   /\ HealthResponse.body.device = "cpu"]_vars

C12_Witness ==
    \E t, u \in Requests :
        /\ variant = "server"
        /\ ~cuda_available
        /\ current_config.compute_engine = "gpu"
        /\ tasks[t].kind = "post_config"
        /\ tasks[t].pc = "done"
        /\ tasks[t].status = 200
        /\ tasks[t].needs_reload
        /\ model.id = 2
        /\ model.device = "cpu"
        /\ t < u
        /\ tasks[u].kind = "health"
        /\ tasks[u].pc = "done"
        /\ tasks[u].status = 200

\* C13: whatever the GPU availability and the config, the device a health
\* response reports is the device the currently loaded model was loaded on.
C13_HealthDeviceIsLoadedDevice ==
    [][\A t \in Requests :
          (HealthAnswered(t) /\ tasks'[t].status = 200)
          => HealthResponse.body.device = model.device]_vars

\* C14: after any successful and failed POST /config requests, the model
\* name a health response reports is the name of the currently loaded model.
C14_HealthModelIsLoadedModel ==
    [][\A t \in Requests :
          (HealthAnswered(t) /\ tasks'[t].status = 200)
          => HealthResponse.body.model = model.name]_vars

\* C15: a health response is 503 exactly when no model is loaded, and with
\* no model loaded a POST /transcribe is answered 503 from the handler's
\* entry, without reading the body or making a temporary file.
C15_NotReadyAnswers503 ==
    [][\A t \in Requests :
          /\ HealthAnswered(t)
             => (tasks'[t].status = 503 <=> model = NoModel)
          /\ ( /\ tasks[t].kind = "transcribe"
               /\ tasks[t].pc = "arrived"
               /\ tasks'[t].pc /= "arrived"
               /\ model = NoModel )
             => /\ tasks'[t].pc = "done"
                /\ tasks'[t].status = 503
                /\ temp_files' = temp_files]_vars

C15_Witness ==
    \E t, u \in Requests :
        /\ model = NoModel
        /\ temp_files = {}
        /\ tasks[t].kind = "health"
        /\ tasks[t].pc = "done"
        /\ tasks[t].status = 503
        /\ tasks[u].kind = "transcribe"
        /\ tasks[u].pc = "done"
        /\ tasks[u].status = 503

\* C16: a POST /config whose model is not in the catalog is answered 400
\* before the config is replaced or written and before any load is tried.
C16_UnknownModelRejected ==
    [][\A t \in Requests :
          ( /\ PostEntered(t)
            /\ "model" \in DOMAIN last_post'.body
            /\ last_post'.body.model \notin AvailableModels )
          => /\ tasks'[t].pc = "done"
             /\ tasks'[t].status = 400
             /\ current_config' = current_config
             /\ config_file' = config_file
             /\ model' = model]_vars

\* C17: whatever string values POST /config requests carry, the in-memory
\* compute_engine is cpu or gpu in every reachable state.
C17_ComputeEngineIsCpuOrGpu ==
    current_config.compute_engine \in {"cpu", "gpu"}

\* C18: when the write of the config file fails during a POST /config (the
\* file does not hold the new config afterwards), the response is 500.
C18_FailedWriteAnswers500 ==
    [][\A t \in Requests :
          ( /\ PostEntered(t)
            /\ config_file' /= JsonFile(current_config')
            /\ tasks'[t].pc = "done" )
          => tasks'[t].status = 500]_vars

C20_RoundTrip ==
    (phase \in {"main", "startup"} /\ ~save_failed)
    => \A k \in (IF variant = "archive" THEN ArchiveKeys ELSE Keys) :
          current_config[k] = last_post.body[k]

C20_Witness ==
    /\ variant = "server"
    /\ phase = "main"
    /\ ~save_failed
    /\ current_config = last_post.body
    /\ current_config.compute_engine = "tpu"
    /\ current_config.model = "tiny"
    /\ current_config.server_port = 9090
    /\ current_config.auth_key = "k1"

\* The keys and defaults of the program whose config store is modelled.
KnownKeys == IF variant = "archive" THEN ArchiveKeys ELSE Keys

DefaultConfig == IF variant = "archive" THEN default_config ELSE ServerConfig

\* The first load of a process.
FirstLoad == phase = "init" /\ phase' = "main"

\* The file holds a JSON object whose members have the types of their fields.
WellTyped(file) ==
    /\ file.kind = "json"
    /\ \A k \in DOMAIN file.data \cap KnownKeys : ValidFor(k, file.data[k])

\* C21: loading a file that holds a JSON object gives every known key the
\* file's value when the key is present and the default when it is absent;
\* the config in memory, and a file saved from it later, has no key outside
\* the known set.
C21_LoadKeepsKnownKeysOnly ==
    [][/\ (FirstLoad /\ WellTyped(config_file)) =>
            /\ \A k \in KnownKeys :
                  current_config'[k] =
                     IF k \in DOMAIN config_file.data
                     THEN json_load(config_file.data)[k]
                     ELSE DefaultConfig[k]
            /\ DOMAIN current_config' \subseteq KnownKeys
       /\ (config_file' /= config_file /\ config_file'.kind = "json") =>
            DOMAIN config_file'.data \subseteq KnownKeys]_vars


\* The most recent POST /config has been answered with the given status.
LastPostAnswered(status) ==
    /\ last_post.id \in Requests
    /\ tasks[last_post.id].pc = "done"
    /\ tasks[last_post.id].status = status

\* C22: on a started server, whenever the most recent POST /config was
\* answered 200, the loaded model is the one the current config names, on
\* the device resolved from the current config's compute_engine.
C22_ModelMatchesConfigAfter200 ==
    (phase = "serving" /\ LastPostAnswered(200))
    => /\ model.name = current_config.model
       /\ model.device = ResolveDevice(current_config.compute_engine)


\* C23: when a POST /config is answered 500 because its reload failed, the
\* in-memory config is the one from before the request.  The reload ran
\* because the body changed model or compute_engine of a loaded server, so
\* the config from before the request differs from the posted one in model
\* or compute_engine.
C23_FailedReloadLeavesConfig ==
    [][\A t \in Requests :
          ( /\ LoadReturned(t)
            /\ tasks'[t].status = 500
            /\ model /= NoModel )
          => \/ current_config'.model /= ParseConfig(tasks[t].body).model
             \/ current_config'.compute_engine
                   /= ParseConfig(tasks[t].body).compute_engine]_vars


\* C24: the engine is without a model only before the first load has
\* completed or after the first load failed; after a failed first load no
\* request is ever served; once a load has succeeded the engine is never
\* again without a loaded model.
C24_NoModelOnlyBeforeServing ==
    /\ model = NoModel => phase \in {"init", "main", "startup", "aborted"}
    /\ phase /= "serving" => \A t \in Requests : tasks[t].pc = "free"
    /\ loads >= 1 => model /= NoModel

C24_Witness ==
    \E t, u \in Requests :
        /\ tasks[t].kind = "post_config" /\ tasks[t].pc = "done"
        /\ tasks[t].status = 500
        /\ tasks[u].kind = "transcribe" /\ tasks[u].pc = "done"
        /\ tasks[u].status = 200
        /\ last_post.id = t
        /\ loads = 1
        /\ model.id = 1


\* C25: a transcription runs on the handle that is the engine's current
\* handle when its inference starts, whatever handle its readiness check
\* saw before a reload ran.
C25_InferenceOnCurrentHandle ==
    [][\A t \in Requests :
          ( /\ tasks[t].kind = "transcribe"
            /\ tasks[t].pc = "reading"
            /\ tasks'[t].pc = "inferring" )
          => /\ tasks'[t].handle = model.id
             /\ model' = model]_vars

\* A request that has passed its readiness check and whose body passes the
\* size checks, after a reload has replaced the handle the check saw.
C25_Witness ==
    \E t, u \in Requests :
        /\ tasks[u].kind = "transcribe"
        /\ tasks[u].pc = "reading"
        /\ tasks[u].size = MinAudioBytes
        /\ tasks[u].handle = 1
        /\ tasks[t].kind = "post_config"
        /\ tasks[t].pc = "done"
        /\ tasks[t].status = 200
        /\ tasks[t].needs_reload
        /\ model.id = 2


\* The request has passed its readiness check and is not yet answered.
InFlight(t) ==
    tasks[t].kind = "transcribe" /\ tasks[t].pc \in {"reading", "inferring"}

\* C26: the temporary file a POST /transcribe creates has a path that no
\* existing file and no other request has; while requests are in flight
\* together no two of them hold the same path; and a file is deleted only
\* by the request that created it, when that request is answered.
C26_OwnTemporaryFile ==
    [][/\ \A t \in Requests :
            (InFlight(t) /\ tasks[t].pc = "reading" /\ tasks'[t].pc = "inferring")
            => /\ tasks'[t].path \notin temp_files
               /\ tasks'[t].path \in temp_files'
               /\ \A u \in Requests \ {t} : tasks[u].path /= tasks'[t].path
       /\ \A t, u \in Requests :
            (t /= u /\ tasks'[t].path /= 0) => tasks'[u].path /= tasks'[t].path
       /\ \A p \in temp_files \ temp_files' :
            \E t \in Requests :
               /\ InFlight(t)
               /\ tasks[t].path = p
               /\ tasks'[t].pc = "done"
               /\ \A u \in Requests \ {t} : tasks'[u] = tasks[u]]_vars

\* Two requests in flight together: one has its file and is transcribing,
\* the other has passed its check and waits for its body; a file leaked by
\* neither of them is absent.
C26_Witness ==
    \E t, u \in Requests :
        /\ t /= u
        /\ InFlight(t) /\ tasks[t].pc = "inferring"
        /\ InFlight(u) /\ tasks[u].pc = "reading"
        /\ tasks[u].size = MinAudioBytes
        /\ temp_files = {tasks[t].path}


\* C27: when no write of the config file has failed, once a POST /config has
\* changed the in-memory config the file holds a JSON object whose content
\* is the in-memory config, in every state from then on.
C27_FileHoldsConfigAfterPost ==
    (last_post.id /= 0 /\ ~save_failed)
    => /\ config_file.kind = "json"
       /\ json_load(config_file.data) = current_config

\* The last POST /config failed in its reload; its config is in memory and
\* in the file all the same.
C27_Witness ==
    /\ LastPostAnswered(500)
    /\ ~save_failed
    /\ current_config.model /= model.name
    /\ current_config.auth_key = "k1"
    /\ json_load(config_file.data) = current_config


\* C28: every step of a GET /health, GET /config or POST /transcribe
\* request, from its arrival to its answer and whatever its status, leaves
\* the in-memory config, the config file and the loaded model as they were.
C28_ReadRequestsChangeNothing ==
    [][\A t \in Requests :
          ( /\ tasks'[t].kind \in {"health", "get_config", "transcribe"}
            /\ tasks'[t] /= tasks[t] )
          => /\ current_config' = current_config
             /\ config_file' = config_file
             /\ model' = model]_vars

\* A transcription that failed and a health check answered after it, on
\* the model loaded at startup.
C28_Witness ==
    \E t, u \in Requests :
        /\ t < u
        /\ tasks[t].kind = "transcribe"
        /\ tasks[t].pc = "done"
        /\ tasks[t].status = 500
        /\ tasks[u].kind = "health"
        /\ tasks[u].pc = "done"
        /\ tasks[u].status = 200
        /\ last_post.id = 0
        /\ model.id = 1


\* A step that loads the config file.
LoadStep == phase \in {"init", "main"} /\ phase' /= phase

\* The file exists and the program cannot read a config from it: it does
\* not parse, or (server.py, which validates) a member has the wrong type.
Unreadable(file) ==
    \/ file.kind = "partial"
    \/ variant = "server" /\ file.kind = "json" /\ ~WellTyped(file)

\* C29: loading a file that exists but does not parse or validate gives the
\* default of every key and leaves the file as it is.
C29_UnreadableFileGivesDefaults ==
    [][(LoadStep /\ Unreadable(config_file))
       => /\ current_config' = DefaultConfig
          /\ config_file' = config_file]_vars

\* server.py has loaded, in main and again at startup, a file that parses
\* and does not validate.
C29_Witness ==
    /\ variant = "server"
    /\ phase = "startup"
    /\ config_file = NullModelFile
    /\ current_config = ServerConfig
    /\ ~save_failed


\* C30: loading when the config file does not exist returns the defaults
\* and, unless the write itself fails, leaves a file that holds the default
\* config.
C30_MissingFileIsCreated ==
    [][(LoadStep /\ config_file.kind = "missing" /\ ~save_failed')
       => /\ current_config' = DefaultConfig
          /\ config_file' = JsonFile(DefaultConfig)]_vars


\* C31: a config update whose file write fails keeps the posted values in
\* memory (no rollback) and reports the failure to its caller: the request
\* that made the update is not answered as a success.
C31_FailedWriteReported ==
    [][\A t \in Requests :
          ( /\ PostEntered(t)
            /\ save_failed' /\ ~save_failed
            /\ tasks'[t].pc = "done" )
          => /\ \A k \in DOMAIN last_post'.body :
                   current_config'[k] = last_post'.body[k]
             /\ tasks'[t].status /= 200]_vars


\* C32: every accepted POST /transcribe and POST /config request is
\* eventually answered, whatever other requests are handled meanwhile.
C32_EveryRequestAnswered ==
    \A t \in Requests :
        (tasks[t].kind \in {"transcribe", "post_config"} /\ tasks[t].pc /= "done")
        ~> (tasks[t].pc = "done")

\* A transcription that arrived while the reload of a POST /config was
\* running; the reload failed, and both requests are answered.
C32_Witness ==
    \E t, u \in Requests :
        /\ tasks[t].kind = "post_config"
        /\ tasks[t].pc = "done"
        /\ tasks[t].status = 500
        /\ tasks[u].kind = "transcribe"
        /\ tasks[u].arrived_during = t
        /\ tasks[u].pc = "done"


\* A POST /config is handled that carries the same config as the POST
\* /config handled before it.
SameConfigPostedAgain(t) ==
    /\ PostEntered(t)
    /\ last_post.id /= 0
    /\ ParseConfig(last_post'.body) = ParseConfig(last_post.body)

CriticalKeys == {"compute_engine", "model_selector", "server_port"}

\* C34: a POST /config of the archived server answered 200 reports
\* restart_required exactly when the posted compute_engine, model_selector
\* or server_port differs from the value the config held before the update.
C34_RestartRequiredOnCriticalChange ==
    [][\A t \in Requests :
          (variant = "archive" /\ PostEntered(t) /\ tasks'[t].status = 200)
          => ( tasks'[t].restart_required
               <=> \E k \in CriticalKeys : last_post'.body[k] /= current_config[k] )]_vars

\* Two updates answered 200: the first changed a critical setting, the
\* second did not and set the auth key.
C34_Witness ==
    \E t, u \in Requests :
        /\ variant = "archive"
        /\ t < u
        /\ tasks[t].kind = "post_config" /\ tasks[t].status = 200
        /\ tasks[t].restart_required
        /\ tasks[u].kind = "post_config" /\ tasks[u].status = 200
        /\ ~tasks[u].restart_required
        /\ last_post.id = u
        /\ last_post.body.auth_key = "k2"
        /\ current_config.auth_key = "k2"


\* C35: in the archived server no request changes the transcriber loaded at
\* startup: a GET /health answered 200 reports its model name and device,
\* whatever config updates were made, while the in-memory config that GET
\* /config returns holds the values of the last update.
C35_ArchivedPostKeepsTranscriber ==
    [][(variant = "archive" /\ phase = "serving")
       => /\ model' = model
          /\ model.id = 1
          /\ \A t \in Requests :
                /\ (HealthAnswered(t) /\ tasks'[t].status = 200)
                   => HealthResponse.body = [device |-> model.device,
                                             model |-> model.name]
                /\ PostEntered(t)
                   => \A k \in DOMAIN last_post'.body :
                         current_config'[k] = last_post'.body[k]]_vars

\* An update to another model was answered 200 and a later health check
\* still runs on the model of startup, which the config no longer names.
C35_Witness ==
    \E t, u \in Requests :
        /\ variant = "archive"
        /\ t < u
        /\ tasks[t].kind = "post_config" /\ tasks[t].pc = "done"
        /\ tasks[t].status = 200 /\ tasks[t].restart_required
        /\ tasks[u].kind = "health" /\ tasks[u].pc = "done"
        /\ tasks[u].status = 200
        /\ current_config.model_selector = "turbo"
        /\ model.name = "tiny"
        /\ model.id = 1


\* Steps of a save_settings request of the settings app.
SavedLocally(t) ==
    /\ tasks[t].kind = "save_settings"
    /\ tasks[t].pc = "arrived"
    /\ tasks'[t].pc = "pushing"

Pushed(t) ==
    /\ tasks[t].kind = "save_settings"
    /\ tasks[t].pc = "pushing"
    /\ tasks'[t].pc = "done"

\* C36: the settings app writes the config file before it contacts the
\* server (the file holds the new settings when the push starts, unless a
\* write failed, and the push writes nothing); a request whose local part raised
\* nothing is answered success, with server_status "running" exactly when
\* the server answered 200, "restart_needed" when it answered another
\* status and "not_running" when there was no answer.
C36_SaveThenPush ==
    [][\A t \in Requests :
          /\ SavedLocally(t)
             => (~save_failed' => config_file' = JsonFile(current_config'))
          /\ Pushed(t)
             => /\ config_file' = config_file
                /\ current_config' = current_config
                /\ tasks'[t].status = 200
                /\ tasks'[t].server_status = "running" <=> tasks'[t].answer = 200
                /\ tasks'[t].answer \notin {0, 200}
                      => tasks'[t].server_status = "restart_needed"
                /\ tasks'[t].answer = 0
                      => tasks'[t].server_status = "not_running"]_vars

\* Two saves answered success: the server rejected the first push and was
\* not reachable for the second; the file holds the settings saved last.
C36_Witness ==
    \E t, u \in Requests :
        /\ tasks[t].kind = "save_settings" /\ tasks[t].pc = "done"
        /\ tasks[t].status = 200
        /\ tasks[t].answer = 422
        /\ tasks[t].server_status = "restart_needed"
        /\ tasks[u].kind = "save_settings" /\ tasks[u].pc = "done"
        /\ tasks[u].status = 200
        /\ tasks[u].answer = 0
        /\ tasks[u].server_status = "not_running"
        /\ current_config.server_port = 9090
        /\ config_file = JsonFile(current_config)


====
